---- MODULE Spec2Model ----
(***************************************************************************)
(* Batch image editor (streamlit_app.py + image_processor.py).             *)
(*                                                                         *)
(* The state is Streamlit's st.session_state plus the file-uploader widget *)
(* and the locals of the batch loop.  Every user event starts one run of   *)
(* the script main(); an action is one such run, st.rerun() included.  The *)
(* batch loop is split into its steps (one item, one remote attempt) so    *)
(* that claims about the order of the remote calls can be stated; no other *)
(* event is handled while the loop runs, the script being synchronous.     *)
(*                                                                         *)
(* Text (file names, prompts, error messages) is a sequence of one-        *)
(* character strings, so that split('.'), lower(), strip() and the         *)
(* substring test `in` are computed, not assumed.                          *)
(***************************************************************************)
EXTENDS Integers, Sequences, FiniteSets, TLC

\* ------------------------------------------------------------------ text

UpperChars ==
    << "A", "B", "C", "D", "E", "F", "G", "H", "I", "J", "K", "L", "M",
       "N", "O", "P", "Q", "R", "S", "T", "U", "V", "W", "X", "Y", "Z" >>

LowerChars ==
    << "a", "b", "c", "d", "e", "f", "g", "h", "i", "j", "k", "l", "m",
       "n", "o", "p", "q", "r", "s", "t", "u", "v", "w", "x", "y", "z" >>

\* str.lower() on one character
LowerChar(c) ==
    IF \E k \in 1..Len(UpperChars) : UpperChars[k] = c
    THEN LowerChars[CHOOSE k \in 1..Len(UpperChars) : UpperChars[k] = c]
    ELSE c

\* str.lower()
lower(s) == [k \in 1..Len(s) |-> LowerChar(s[k])]

\* the Python test `pat in s` on strings
Contains(s, pat) ==
    \E k \in 0..(Len(s) - Len(pat)) : SubSeq(s, k + 1, k + Len(pat)) = pat

\* str.strip(): leading and trailing blanks removed
strip(s) ==
    LET solid == {k \in 1..Len(s) : s[k] # " "}
    IN  IF solid = {} THEN << >>
        ELSE SubSeq(s, CHOOSE k \in solid : \A j \in solid : k <= j,
                       CHOOSE k \in solid : \A j \in solid : k >= j)

\* name.split('.')[-1]: the text after the last dot (the whole text if none)
LastSegment(s) ==
    LET dots == {k \in 1..Len(s) : s[k] = "."}
    IN  IF dots = {} THEN s
        ELSE SubSeq(s, (CHOOSE k \in dots : \A j \in dots : k >= j) + 1, Len(s))

DigitChars == <<"0", "1", "2", "3", "4", "5", "6", "7", "8", "9">>

\* str(n) of a natural number: its decimal digits
RECURSIVE Decimal(_)
Decimal(n) ==
    IF n < 10 THEN <<DigitChars[n + 1]>>
    ELSE Append(Decimal(n \div 10), DigitChars[(n % 10) + 1])

\* ------------------------------------------------------- configuration

MAX_FILE_SIZE == 10 * 1024 * 1024

MAX_FILES == 15

SUPPORTED_FORMATS ==
    { <<"p", "n", "g">>, <<"j", "p", "g">>, <<"j", "p", "e", "g">>,
      <<"w", "e", "b", "p">> }

\* the dimension limits of validate_image
MAX_DIMENSION == 4000

MIN_DIMENSION == 50

max_retries == 2

\* --------------------------------------------------------------- files

(***************************************************************************)
(* The bytes of a file, as far as the program can tell them apart: their   *)
(* length, their MD5 digest, and what PIL makes of them.  `header` is      *)
(* whether Image.open succeeds (it reads the header only), `loadable`      *)
(* whether the pixel data can be decoded when the image is converted or    *)
(* saved.  width, height, format and mode are what Image.open reports.     *)
(***************************************************************************)
Bytes(md5, len, header, width, height, loadable) ==
    [type |-> "bytes", md5 |-> md5, len |-> len, header |-> header, width |-> width,
     height |-> height, format |-> "PNG", mode |-> "RGB", loadable |-> loadable]

\* an UploadedFile: file.name, file.size and file.getvalue()
UploadedFile(name, size, bytes) == [name |-> name, size |-> size, bytes |-> bytes]

ImageBytes(md5, width, height) == Bytes(md5, 7, TRUE, width, height, TRUE)

EmptyBytes == Bytes(0, 0, FALSE, 0, 0, FALSE)

CorruptBytes == Bytes(9, 7, FALSE, 0, 0, FALSE)

\* a value that is not bytes: a str of seven characters
NotBytes == [Bytes(8, 7, FALSE, 0, 0, FALSE) EXCEPT !.type = "str"]

\* ------------------------------------------------------ validate_image

ErrTooLargeFile == "File too large"

ErrUnsupported == "Unsupported format"

ErrEmpty == "Empty file"

ErrInvalid == "Invalid image file"

ErrImageTooLarge == "Image too large"

ErrImageTooSmall == "Image too small"

\* line 56: the lower-cased suffix after the last dot, '' without a dot
file_extension(name) ==
    IF Contains(name, <<".">>) THEN lower(LastSegment(name)) ELSE << >>

Rejected(error) == [valid |-> FALSE, error |-> error]

\* line 87: f"{image.width}x{image.height}"
dimensions_text(width, height) == Decimal(width) \o <<"x">> \o Decimal(height)

\* validate_image with the extension looked at before the size
validate_image_ExtensionFirst(file) ==
    IF file_extension(file.name) \notin SUPPORTED_FORMATS
    THEN Rejected(ErrUnsupported)
    ELSE IF file.size > MAX_FILE_SIZE THEN Rejected(ErrTooLargeFile)
    ELSE IF file.bytes.len = 0 THEN Rejected(ErrEmpty)
    ELSE IF ~file.bytes.header THEN Rejected(ErrInvalid)
    ELSE IF file.bytes.width > MAX_DIMENSION \/ file.bytes.height > MAX_DIMENSION
         THEN Rejected(ErrImageTooLarge)
    ELSE IF file.bytes.width < MIN_DIMENSION \/ file.bytes.height < MIN_DIMENSION
         THEN Rejected(ErrImageTooSmall)
    ELSE [valid |-> TRUE,
          size |-> file.size,
          dimensions |-> dimensions_text(file.bytes.width, file.bytes.height),
          format |-> file.bytes.format,
          mode |-> file.bytes.mode,
          bytes |-> file.bytes]

\* validate_image with >= and <= in the dimension tests: the limits themselves are rejected
validate_image_ExclusiveLimits(file) ==
    IF file.size > MAX_FILE_SIZE THEN Rejected(ErrTooLargeFile)
    ELSE IF file_extension(file.name) \notin SUPPORTED_FORMATS
         THEN Rejected(ErrUnsupported)
    ELSE IF file.bytes.len = 0 THEN Rejected(ErrEmpty)
    ELSE IF ~file.bytes.header THEN Rejected(ErrInvalid)
    ELSE IF file.bytes.width >= MAX_DIMENSION \/ file.bytes.height >= MAX_DIMENSION
         THEN Rejected(ErrImageTooLarge)
    ELSE IF file.bytes.width <= MIN_DIMENSION \/ file.bytes.height <= MIN_DIMENSION
         THEN Rejected(ErrImageTooSmall)
    ELSE [valid |-> TRUE,
          size |-> file.size,
          dimensions |-> dimensions_text(file.bytes.width, file.bytes.height),
          format |-> file.bytes.format,
          mode |-> file.bytes.mode,
          bytes |-> file.bytes]

\* validate_image without the test of the file size
validate_image_NoSizeCheck(file) ==
    IF file_extension(file.name) \notin SUPPORTED_FORMATS
    THEN Rejected(ErrUnsupported)
    ELSE IF file.bytes.len = 0 THEN Rejected(ErrEmpty)
    ELSE IF ~file.bytes.header THEN Rejected(ErrInvalid)
    ELSE IF file.bytes.width > MAX_DIMENSION \/ file.bytes.height > MAX_DIMENSION
         THEN Rejected(ErrImageTooLarge)
    ELSE IF file.bytes.width < MIN_DIMENSION \/ file.bytes.height < MIN_DIMENSION
         THEN Rejected(ErrImageTooSmall)
    ELSE [valid |-> TRUE,
          size |-> file.size,
          dimensions |-> dimensions_text(file.bytes.width, file.bytes.height),
          format |-> file.bytes.format,
          mode |-> file.bytes.mode,
          bytes |-> file.bytes]

validate_image(file) ==
    IF file.size > MAX_FILE_SIZE THEN Rejected(ErrTooLargeFile)
    ELSE IF file_extension(file.name) \notin SUPPORTED_FORMATS
         THEN Rejected(ErrUnsupported)
    ELSE IF file.bytes.len = 0 THEN Rejected(ErrEmpty)
    ELSE IF ~file.bytes.header THEN Rejected(ErrInvalid)
    ELSE IF file.bytes.width > MAX_DIMENSION \/ file.bytes.height > MAX_DIMENSION
         THEN Rejected(ErrImageTooLarge)
    ELSE IF file.bytes.width < MIN_DIMENSION \/ file.bytes.height < MIN_DIMENSION
         THEN Rejected(ErrImageTooSmall)
    ELSE [valid |-> TRUE,
          size |-> file.size,
          dimensions |-> dimensions_text(file.bytes.width, file.bytes.height),
          format |-> file.bytes.format,
          mode |-> file.bytes.mode,
          bytes |-> file.bytes]

\* ---------------------------------------------------- create_file_hash

(***************************************************************************)
(* sha256(f"{filename}_{len(content)}_{md5(content)}")[:12].  The          *)
(* composite text determines its three parts (the digest has a fixed       *)
(* length and the length is all digits), and the model takes the truncated *)
(* SHA-256 of distinct composites to differ: the hash is the composite.    *)
(***************************************************************************)
create_file_hash(file_content, filename) ==
    <<filename, file_content.len, file_content.md5>>

\* -------------------------------------------------- create_zip_download

\* c.isalnum() on the characters the model writes
IsAlnum(c) ==
    \/ \E k \in 1..Len(UpperChars) : UpperChars[k] = c
    \/ \E k \in 1..Len(LowerChars) : LowerChars[k] = c
    \/ \E k \in 1..Len(DigitChars) : DigitChars[k] = c

\* f"{n:02d}": at least two digits, zero-padded
TwoDigits(n) == IF n < 10 THEN <<"0">> \o Decimal(n) ELSE Decimal(n)

\* os.path.splitext(filename)[0]: the text before the last dot, leading dots aside
splitext_root(filename) ==
    LET dots == {k \in 1..Len(filename) : filename[k] = "."}
        last == CHOOSE k \in dots : \A j \in dots : k >= j
    IN  IF dots = {} THEN filename
        ELSE IF \A k \in 1..last : filename[k] = "." THEN filename
        ELSE SubSeq(filename, 1, last - 1)

\* line 47: the characters kept, then strip()
safe_name(base_name) ==
    LET keep(c) == IsAlnum(c) \/ c \in {" ", "-", "_"}
        F[n \in 0..Len(base_name)] ==
            IF n = 0 THEN << >>
            ELSE IF keep(base_name[n]) THEN Append(F[n - 1], base_name[n])
            ELSE F[n - 1]
    IN  strip(F[Len(base_name)])

\* zip_filename without the index
zip_filename_NoIndex(index, filename) ==
    <<"e", "d", "i", "t", "e", "d", "_">>
        \o safe_name(splitext_root(filename)) \o <<".", "p", "n", "g">>

\* line 48
zip_filename(index, filename) ==
    TwoDigits(index + 1) \o <<"_", "e", "d", "i", "t", "e", "d", "_">>
        \o safe_name(splitext_root(filename)) \o <<".", "p", "n", "g">>

\* lines 38-53: the entries written to the ZIP file, in order
create_zip_download(results) ==
    LET F[n \in 0..Len(results)] ==
            IF n = 0 THEN << >>
            ELSE IF results[n].success
            THEN Append(F[n - 1], [name |-> zip_filename(n - 1, results[n].filename),
                                   data |-> results[n].image_bytes])
            ELSE F[n - 1]
    IN  F[Len(results)]

\* line 321
Successful(results) == SelectSeq(results, LAMBDA r : r.success)

\* the lookup without its break: the last entry of that filename is taken
original_data_LastMatch(result, data) ==
    LET F[n \in 0..Len(data)] ==
            IF n = 0 THEN << >>
            ELSE IF data[n].filename = result.filename THEN <<data[n]>>
            ELSE F[n - 1]
    IN  F[Len(data)]

\* lines 389-393: the original shown next to a result, << >> for None; the loop
\* over uploaded_files_data.values() stops at the first entry of that filename
original_data(result, data) ==
    LET F[n \in 0..Len(data)] ==
            IF n = 0 THEN << >>
            ELSE IF F[n - 1] # << >> THEN F[n - 1]
            ELSE IF data[n].filename = result.filename THEN <<data[n]>>
            ELSE << >>
    IN  F[Len(data)]

\* ------------------------------------------------------- session state

VARIABLES
    uploaded_files,          \* what st.file_uploader returns: the widget's files
    uploaded_files_data,     \* st.session_state.uploaded_files_data (a dict, in insertion order)
    processing_results,      \* st.session_state.processing_results, its items
    results_type,            \* "list" or "dict": the Python type of processing_results
    current_prompt,          \* st.session_state.current_prompt
    processing_in_progress,  \* st.session_state.processing_in_progress
    invalid_files,           \* the rejections the last script run reported
    pc,                      \* where the script is: "idle" between runs, else in the batch loop
    files_data,              \* the batch loop's list(uploaded_files_data.items())
    i,                       \* the batch loop's index (1-based here)
    attempt,                 \* the retry loop's index
    attempts,                \* history: per item of the run, the outcome of each remote call
    api_errors,              \* history: per item, the exception text the retry loop gave up on
    discarded,               \* history: how many results the run in progress threw away at its start
    probe_file,              \* validate_image alone: its argument
    probe_validation,        \* validate_image alone: its result
    probe_error,             \* the error classification alone: str(api_error)
    probe_final,             \* the error classification alone: final_error
    probe_results,           \* the archive alone: a list of results
    probe_archive,           \* the archive alone: what create_zip_download wrote
    HF_TOKEN,                \* os.environ.get("HF_TOKEN"): << >> when unset, else <<its text>>
    stopped                  \* the last script run ended at the st.stop() of _initialize_client

vars ==
    << uploaded_files, uploaded_files_data, processing_results, results_type,
       current_prompt, processing_in_progress, invalid_files, pc, files_data, i,
       attempt, attempts, api_errors, discarded, probe_file, probe_validation, probe_error,
       probe_final, probe_results, probe_archive, HF_TOKEN, stopped >>

session_vars ==
    << uploaded_files, uploaded_files_data, processing_results, results_type,
       current_prompt, processing_in_progress, invalid_files >>

loop_vars == << pc, files_data, i, attempt, attempts, api_errors, discarded >>

probe_vars ==
    << probe_file, probe_validation, probe_error, probe_final, probe_results,
       probe_archive >>

env_vars == << HF_TOKEN, stopped >>

\* ------------------------------------------------- the upload block

\* the keys of the dict
Keys(data) == {data[k].hash : k \in 1..Len(data)}

\* data[file_hash] = entry: a new key goes last, an old key keeps its place
DictSet(data, entry) ==
    IF entry.hash \in Keys(data)
    THEN [k \in 1..Len(data) |-> IF data[k].hash = entry.hash THEN entry ELSE data[k]]
    ELSE Append(data, entry)

\* del data[file_hash]
DictDel(data, file_hash) ==
    LET keep == {k \in 1..Len(data) : data[k].hash # file_hash}
        F[n \in 0..Len(data)] ==
            IF n = 0 THEN << >>
            ELSE IF n \in keep THEN Append(F[n - 1], data[n]) ELSE F[n - 1]
    IN  F[Len(data)]

\* lines 179-187: the entry stored for a valid file
Entry(file, file_hash, validation) ==
    [filename |-> file.name,
     size |-> validation.size,
     dimensions |-> validation.dimensions,
     format |-> validation.format,
     mode |-> validation.mode,
     bytes |-> validation.bytes,
     hash |-> file_hash]

\* AddFile without the test `file_hash not in uploaded_files_data`: every file is
\* validated and stored again
AddFile_NoDedup(acc, file) ==
    LET file_hash == create_file_hash(file.bytes, file.name)
        validation == validate_image(file)
    IN  IF validation.valid
        THEN [acc EXCEPT !.data = DictSet(@, Entry(file, file_hash, validation)),
                         !.new_files = @ + 1]
        ELSE [acc EXCEPT !.invalid_files =
                 Append(@, [filename |-> file.name, error |-> validation.error])]

\* lines 172-193: one turn of the loop over the uploaded files
AddFile(acc, file) ==
    LET file_hash == create_file_hash(file.bytes, file.name)
        validation == validate_image(file)
    IN  IF file_hash \in Keys(acc.data) THEN acc
        ELSE IF validation.valid
        THEN [acc EXCEPT !.data = DictSet(@, Entry(file, file_hash, validation)),
                         !.new_files = @ + 1]
        ELSE [acc EXCEPT !.invalid_files =
                 Append(@, [filename |-> file.name, error |-> validation.error])]

\* lines 159-161: only the first MAX_FILES files of the widget are looked at
Truncated(files) ==
    IF Len(files) > MAX_FILES THEN SubSeq(files, 1, MAX_FILES) ELSE files

\* ProcessUploads with a break at the first rejected file
ProcessUploads_StopAtRejection(data, files) ==
    LET todo == Truncated(files)
        F[n \in 0..Len(todo)] ==
            IF n = 0 THEN [data |-> data, new_files |-> 0, invalid_files |-> << >>]
            ELSE IF F[n - 1].invalid_files # << >> THEN F[n - 1]
            ELSE AddFile(F[n - 1], todo[n])
    IN  F[Len(todo)]

\* lines 157-193: the upload block of one script run
ProcessUploads(data, files) ==
    LET todo == Truncated(files)
        F[n \in 0..Len(todo)] ==
            IF n = 0 THEN [data |-> data, new_files |-> 0, invalid_files |-> << >>]
            ELSE AddFile(F[n - 1], todo[n])
    IN  F[Len(todo)]

\* ------------------------------------------------ process_single_image

Text(t) == [text |-> t, arg |-> << >>]

\* an f-string: a fixed text followed by str(e)
TextWith(t, arg) == [text |-> t, arg |-> arg]

Failure(filename, error) == [success |-> FALSE, filename |-> filename, error |-> error]

\* lines 159-166
Success(filename, image_bytes, image) ==
    [success |-> TRUE,
     filename |-> filename,
     image_bytes |-> image.png,
     original_size |-> image_bytes.len,
     result_size |-> image.png_len]

\* what Image.open, convert and save raise on bytes PIL cannot read
PreprocessError == <<"c", "a", "n", "n", "o", "t", " ", "i", "d", "e", "n", "t", "i", "f", "y">>

\* prepare without the try/except around the conversion: PIL's exception leaves
\* the function
prepare_NoCatch(image_bytes, prompt, filename) ==
    IF image_bytes.type # "bytes" \/ image_bytes.len = 0
    THEN [tag |-> "return",
          result |-> Failure(filename, Text("Invalid image data format"))]
    ELSE IF prompt = << >> \/ strip(prompt) = << >>
    THEN [tag |-> "return", result |-> Failure(filename, Text("Empty prompt"))]
    ELSE IF ~image_bytes.header \/ ~image_bytes.loadable
    THEN [tag |-> "raise", result |-> Failure(filename, Text(""))]
    ELSE [tag |-> "call", result |-> Failure(filename, Text(""))]

\* prepare with the conversion's exception swallowed: the remote call is made anyway
prepare_IgnoreConversionError(image_bytes, prompt, filename) ==
    IF image_bytes.type # "bytes" \/ image_bytes.len = 0
    THEN [tag |-> "return",
          result |-> Failure(filename, Text("Invalid image data format"))]
    ELSE IF prompt = << >> \/ strip(prompt) = << >>
    THEN [tag |-> "return", result |-> Failure(filename, Text("Empty prompt"))]
    ELSE [tag |-> "call", result |-> Failure(filename, Text(""))]

(***************************************************************************)
(* Lines 101-142: the input checks and the conversion to PNG.  The result  *)
(* is either the dict the function returns at once, or the go-ahead for    *)
(* the retry loop.                                                         *)
(***************************************************************************)
prepare(image_bytes, prompt, filename) ==
    IF image_bytes.type # "bytes" \/ image_bytes.len = 0
    THEN [tag |-> "return",
          result |-> Failure(filename, Text("Invalid image data format"))]
    ELSE IF prompt = << >> \/ strip(prompt) = << >>
    THEN [tag |-> "return", result |-> Failure(filename, Text("Empty prompt"))]
    ELSE IF ~image_bytes.header \/ ~image_bytes.loadable
    THEN [tag |-> "return",
          result |-> Failure(filename,
                        TextWith("Image preprocessing failed: ", PreprocessError))]
    ELSE [tag |-> "call", result |-> Failure(filename, Text(""))]

KwImages == <<"i", "m", "a", "g", "e", "s">>

KwParameter == <<"p", "a", "r", "a", "m", "e", "t", "e", "r">>

KwTimeout == <<"t", "i", "m", "e", "o", "u", "t">>

KwQuota == <<"q", "u", "o", "t", "a">>

KwRateLimit == <<"r", "a", "t", "e", " ", "l", "i", "m", "i", "t">>

KwUnauthorized == <<"u", "n", "a", "u", "t", "h", "o", "r", "i", "z", "e", "d">>

KwToken == <<"t", "o", "k", "e", "n">>

KwModel == <<"m", "o", "d", "e", "l">>

MsgParameter == "API parameter error - image format may be incompatible"

MsgTimeout == "Request timeout - try with a smaller image"

MsgQuota == "API quota exceeded - please wait before trying again"

MsgAuth == "Authentication error - check your HF_TOKEN"

MsgModel == "Model not available - try again later"

MsgApiError == "API error: "

\* classify with the quota test moved before the timeout test
classify_QuotaBeforeTimeout(api_error) ==
    LET error_msg == lower(api_error)
    IN  IF Contains(error_msg, KwImages) \/ Contains(error_msg, KwParameter)
        THEN Text(MsgParameter)
        ELSE IF Contains(error_msg, KwQuota) \/ Contains(error_msg, KwRateLimit)
        THEN Text(MsgQuota)
        ELSE IF Contains(error_msg, KwTimeout) THEN Text(MsgTimeout)
        ELSE IF Contains(error_msg, KwUnauthorized) \/ Contains(error_msg, KwToken)
        THEN Text(MsgAuth)
        ELSE IF Contains(error_msg, KwModel) THEN Text(MsgModel)
        ELSE TextWith(MsgApiError, api_error)

\* lines 174-187: final_error from str(api_error)
classify(api_error) ==
    LET error_msg == lower(api_error)
    IN  IF Contains(error_msg, KwImages) \/ Contains(error_msg, KwParameter)
        THEN Text(MsgParameter)
        ELSE IF Contains(error_msg, KwTimeout) THEN Text(MsgTimeout)
        ELSE IF Contains(error_msg, KwQuota) \/ Contains(error_msg, KwRateLimit)
        THEN Text(MsgQuota)
        ELSE IF Contains(error_msg, KwUnauthorized) \/ Contains(error_msg, KwToken)
        THEN Text(MsgAuth)
        ELSE IF Contains(error_msg, KwModel) THEN Text(MsgModel)
        ELSE TextWith(MsgApiError, api_error)

(***************************************************************************)
(* What one remote attempt can do: client.image_to_image returns an image  *)
(* or raises, and an image returned is then saved as PNG, which can raise  *)
(* as well.                                                                *)
(***************************************************************************)
Returned(image) == [ok |-> TRUE, image |-> image, error |-> << >>]

Raised(error) == [ok |-> FALSE, image |-> [saveable |-> FALSE, save_error |-> << >>,
                                           png |-> "", png_len |-> 0],
                  error |-> error]

\* AttemptError with the save of lines 155-157 outside the try: only the remote
\* call can fail an attempt
AttemptError_CallOnly(response) ==
    IF ~response.ok THEN <<response.error>> ELSE << >>

\* the exception of lines 148-157, if any: << >> when the attempt got through
AttemptError(response) ==
    IF ~response.ok THEN <<response.error>>
    ELSE IF ~response.image.saveable THEN <<response.image.save_error>>
    ELSE << >>

\* attempt_outcome with an off-by-one in the retry test: one more call is made
attempt_outcome_ExtraRetry(response, tries, filename, image_bytes) ==
    LET raised == AttemptError(response)
    IN  IF raised = << >>
        THEN [tag |-> "return", result |-> Success(filename, image_bytes, response.image)]
        ELSE IF tries < max_retries
        THEN [tag |-> "retry", result |-> Failure(filename, Text(""))]
        ELSE [tag |-> "return", result |-> Failure(filename, classify(raised[1]))]

\* lines 146-193: one turn of the retry loop, given what the remote call did
attempt_outcome(response, tries, filename, image_bytes) ==
    LET raised == AttemptError(response)
    IN  IF raised = << >>
        THEN [tag |-> "return", result |-> Success(filename, image_bytes, response.image)]
        ELSE IF tries < max_retries - 1
        THEN [tag |-> "retry", result |-> Failure(filename, Text(""))]
        ELSE [tag |-> "return", result |-> Failure(filename, classify(raised[1]))]

\* ---------------------------------------------------- the script runs

(***************************************************************************)
(* Every script run executes the upload block on the files the widget      *)
(* holds: the widget keeps its files from one run to the next, until the   *)
(* user changes them.  st.rerun() starts the script again, so a handler    *)
(* that ends in st.rerun() is followed by the upload block once more.      *)
(***************************************************************************)
UploadBlock(data) == ProcessUploads(data, uploaded_files)

Idle == pc = "idle"

\* `if token` with only None taken for a missing token: an empty HF_TOKEN passes
token_missing_OnlyNone(token) == token = << >>

\* line 23: `not token`, of os.environ.get("HF_TOKEN"): None or the empty string
token_missing(token) == token = << >> \/ token[1] = << >>

\* lines 90-94 and 16-43: ImageProcessor() gets past _initialize_client; without
\* a token st.stop() ends the script run before the sidebar and the uploader
ProcessorReady == ~token_missing(HF_TOKEN)

\* lines 22-31, 90-94: a script run without a token ends at st.stop(); nothing
\* below line 94 is executed, so the session is as initialize_session_state left it
StopWithoutToken ==
    /\ Idle
    /\ ~ProcessorReady
    /\ stopped' = TRUE
    /\ UNCHANGED HF_TOKEN
    /\ UNCHANGED session_vars
    /\ UNCHANGED loop_vars
    /\ UNCHANGED probe_vars

\* the run's locals are gone once the script ends
LoopReset ==
    /\ pc' = "idle"
    /\ files_data' = << >>
    /\ i' = 0
    /\ attempt' = 0
    /\ attempts' = << >>
    /\ api_errors' = << >>
    /\ discarded' = 0

\* lines 148-205: the user changes the files of the uploader
ChangeUploads(offered) ==
    \E files \in offered :
        /\ Idle
        /\ ProcessorReady
        /\ ~processing_in_progress
        /\ uploaded_files' = files
        /\ LET up == ProcessUploads(uploaded_files_data, files)
           IN  /\ uploaded_files_data' = up.data
               /\ invalid_files' = up.invalid_files
        /\ UNCHANGED << processing_results, results_type, current_prompt,
                        processing_in_progress >>
        /\ UNCHANGED loop_vars
        /\ UNCHANGED probe_vars
        /\ UNCHANGED env_vars

\* lines 127-129: Clear Files, then the rerun
ClearFiles ==
    /\ Idle
    /\ ProcessorReady
    /\ LET up == UploadBlock(<< >>)
       IN  /\ uploaded_files_data' = up.data
           /\ invalid_files' = up.invalid_files
    /\ UNCHANGED << uploaded_files, processing_results, results_type, current_prompt,
                    processing_in_progress >>
    /\ UNCHANGED loop_vars
    /\ UNCHANGED probe_vars
    /\ UNCHANGED env_vars

\* lines 132-134: Clear Results, then the rerun
ClearResults ==
    /\ Idle
    /\ ProcessorReady
    /\ processing_results' = << >>
    /\ results_type' = "list"
    /\ LET up == UploadBlock(uploaded_files_data)
       IN  /\ uploaded_files_data' = up.data
           /\ invalid_files' = up.invalid_files
    /\ UNCHANGED << uploaded_files, current_prompt, processing_in_progress >>
    /\ UNCHANGED loop_vars
    /\ UNCHANGED probe_vars
    /\ UNCHANGED env_vars

\* lines 136-139: New Session gives all three keys {} or "", then the rerun
NewSession ==
    /\ Idle
    /\ ProcessorReady
    /\ processing_results' = << >>
    /\ results_type' = "dict"
    /\ current_prompt' = << >>
    /\ LET up == UploadBlock(<< >>)
       IN  /\ uploaded_files_data' = up.data
           /\ invalid_files' = up.invalid_files
    /\ UNCHANGED << uploaded_files, processing_in_progress >>
    /\ UNCHANGED loop_vars
    /\ UNCHANGED probe_vars
    /\ UNCHANGED env_vars

\* lines 211-228: the remove button of one loaded file, then the rerun
RemoveFile ==
    /\ Idle
    /\ ProcessorReady
    /\ LET shown == UploadBlock(uploaded_files_data).data
       IN  \E file_hash \in Keys(shown) :
               LET up == UploadBlock(DictDel(shown, file_hash))
               IN  /\ uploaded_files_data' = up.data
                   /\ invalid_files' = up.invalid_files
    /\ UNCHANGED << uploaded_files, processing_results, results_type, current_prompt,
                    processing_in_progress >>
    /\ UNCHANGED loop_vars
    /\ UNCHANGED probe_vars
    /\ UNCHANGED env_vars

\* lines 234-244: the user edits the prompt
SetPrompt(prompts) ==
    \E prompt \in prompts :
        /\ Idle
        /\ ProcessorReady
        /\ ~processing_in_progress
        /\ current_prompt' = prompt
        /\ LET up == UploadBlock(uploaded_files_data)
           IN  /\ uploaded_files_data' = up.data
               /\ invalid_files' = up.invalid_files
        /\ UNCHANGED << uploaded_files, processing_results, results_type,
                        processing_in_progress >>
        /\ UNCHANGED loop_vars
        /\ UNCHANGED probe_vars
        /\ UNCHANGED env_vars

\* can_process with bool(prompt) for bool(prompt.strip()): a blank prompt passes
can_process_NoStrip(data, prompt) ==
    /\ data # << >>
    /\ prompt # << >>
    /\ ~processing_in_progress

\* lines 259-263
can_process(data, prompt) ==
    /\ data # << >>
    /\ strip(prompt) # << >>
    /\ ~processing_in_progress

\* StartBatch without line 274: the new run appends to the results of the last one
StartBatch_KeepResults ==
    /\ Idle
    /\ ProcessorReady
    /\ LET up == UploadBlock(uploaded_files_data)
       IN  /\ can_process(up.data, current_prompt)
           /\ uploaded_files_data' = up.data
           /\ invalid_files' = up.invalid_files
           /\ files_data' = up.data
    /\ processing_in_progress' = TRUE
    /\ processing_results' = processing_results
    /\ results_type' = "list"
    /\ pc' = "loop"
    /\ i' = 1
    /\ attempt' = 0
    /\ attempts' = << >>
    /\ api_errors' = << >>
    /\ discarded' = Len(processing_results)
    /\ UNCHANGED << uploaded_files, current_prompt >>
    /\ UNCHANGED probe_vars
    /\ UNCHANGED env_vars

\* lines 266-282: Start Batch Processing, up to the head of the loop
StartBatch ==
    /\ Idle
    /\ ProcessorReady
    /\ LET up == UploadBlock(uploaded_files_data)
       IN  /\ can_process(up.data, current_prompt)
           /\ uploaded_files_data' = up.data
           /\ invalid_files' = up.invalid_files
           /\ files_data' = up.data
    /\ processing_in_progress' = TRUE
    /\ processing_results' = << >>
    /\ results_type' = "list"
    /\ pc' = "loop"
    /\ i' = 1
    /\ attempt' = 0
    /\ attempts' = << >>
    /\ api_errors' = << >>
    /\ discarded' = Len(processing_results)
    /\ UNCHANGED << uploaded_files, current_prompt >>
    /\ UNCHANGED probe_vars
    /\ UNCHANGED env_vars

\* AppendResult with a break after a failed item: the rest of the batch is dropped
AppendResult_StopOnFailure(result) ==
    IF results_type = "list"
    THEN /\ processing_results' = Append(processing_results, result)
         /\ i' = IF result.success THEN i + 1 ELSE Len(files_data) + 1
         /\ pc' = "loop"
    ELSE /\ pc' = "crashed"
         /\ UNCHANGED << processing_results, i >>

\* line 295: processing_results.append(result), and on to the next item;
\* a dict has no append, and the AttributeError would leave the script
AppendResult(result) ==
    IF results_type = "list"
    THEN /\ processing_results' = Append(processing_results, result)
         /\ i' = i + 1
         /\ pc' = "loop"
    ELSE /\ pc' = "crashed"
         /\ UNCHANGED << processing_results, i >>

\* lines 285-293 and 101-142: the next item, up to the first remote call
BeginItem ==
    /\ pc = "loop"
    /\ i <= Len(files_data)
    /\ LET file_data == files_data[i]
           prepared == prepare(file_data.bytes, current_prompt, file_data.filename)
       IN  CASE prepared.tag = "return" -> AppendResult(prepared.result)
             [] prepared.tag = "call" ->
                    /\ pc' = "call"
                    /\ UNCHANGED << processing_results, i >>
             [] OTHER ->
                    /\ pc' = "crashed"
                    /\ UNCHANGED << processing_results, i >>
    /\ attempt' = 0
    /\ attempts' = Append(attempts, << >>)
    /\ api_errors' = Append(api_errors, << >>)
    /\ UNCHANGED << uploaded_files, uploaded_files_data, results_type, current_prompt,
                    processing_in_progress, invalid_files, files_data, discarded >>
    /\ UNCHANGED probe_vars
    /\ UNCHANGED env_vars

\* IssueCall that does not wait for the answer: the loop goes on to the next item
IssueCall_NoWait ==
    /\ pc = "call"
    /\ pc' = "loop"
    /\ i' = i + 1
    /\ attempts' = [attempts EXCEPT ![i] = Append(@, "pending")]
    /\ UNCHANGED session_vars
    /\ UNCHANGED << files_data, attempt, api_errors, discarded >>
    /\ UNCHANGED probe_vars
    /\ UNCHANGED env_vars

\* line 148: the remote call is issued
IssueCall ==
    /\ pc = "call"
    /\ pc' = "wait"
    /\ attempts' = [attempts EXCEPT ![i] = Append(@, "pending")]
    /\ UNCHANGED session_vars
    /\ UNCHANGED << files_data, i, attempt, api_errors, discarded >>
    /\ UNCHANGED probe_vars
    /\ UNCHANGED env_vars

AttemptStatus(response) ==
    IF ~response.ok THEN "call failed"
    ELSE IF ~response.image.saveable THEN "save failed"
    ELSE "succeeded"

\* lines 148-193: the remote call returns or raises, and the attempt ends
CallReturns(responses) ==
    \E response \in responses :
        /\ pc = "wait"
        /\ LET file_data == files_data[i]
               outcome == attempt_outcome(response, attempt, file_data.filename,
                                          file_data.bytes)
           IN  /\ attempts' = [attempts EXCEPT
                      ![i] = [@ EXCEPT ![Len(@)] = AttemptStatus(response)]]
               /\ IF outcome.tag = "retry"
                  THEN /\ attempt' = attempt + 1
                       /\ pc' = "call"
                       /\ UNCHANGED << processing_results, i, api_errors >>
                  ELSE /\ AppendResult(outcome.result)
                       /\ api_errors' = [api_errors EXCEPT ![i] = AttemptError(response)]
                       /\ UNCHANGED attempt
        /\ UNCHANGED << uploaded_files, uploaded_files_data, results_type, current_prompt,
                        processing_in_progress, invalid_files, files_data, discarded >>
        /\ UNCHANGED probe_vars
        /\ UNCHANGED env_vars

\* lines 301-309: the loop is over; the flag is cleared and the script reruns
FinishBatch ==
    /\ pc = "loop"
    /\ i > Len(files_data)
    /\ processing_in_progress' = FALSE
    /\ LET up == UploadBlock(uploaded_files_data)
       IN  /\ uploaded_files_data' = up.data
           /\ invalid_files' = up.invalid_files
    /\ LoopReset
    /\ UNCHANGED << uploaded_files, processing_results, results_type, current_prompt >>
    /\ UNCHANGED probe_vars
    /\ UNCHANGED env_vars

(***************************************************************************)
(* Lines 251-256, 277-302: the user touches a widget while the batch loop  *)
(* runs.  The widgets of this run were drawn before line 273 set the flag, *)
(* so they are enabled; Streamlit ends the script at its next st.* call    *)
(* (lines 278-279, 287, 296, 302) and runs it again from the top.  The     *)
(* loop's locals are gone, line 305 is not reached, and the session state  *)
(* is as the loop left it.  The checkboxes of lines 251-256 change nothing *)
(* else.                                                                   *)
(***************************************************************************)
Interrupt ==
    /\ pc = "loop"
    /\ LET up == UploadBlock(uploaded_files_data)
       IN  /\ uploaded_files_data' = up.data
           /\ invalid_files' = up.invalid_files
    /\ LoopReset
    /\ UNCHANGED << uploaded_files, processing_results, results_type, current_prompt,
                    processing_in_progress >>
    /\ UNCHANGED probe_vars
    /\ UNCHANGED env_vars

\* ------------------------------------------------------------ inputs

\* the longest list of files the user hands to the uploader at once
MaxUpload == 2

SeqsUpTo(S, n) == UNION {[1..k -> S] : k \in 0..n}

NameA == <<"a", ".", "p", "n", "g">>

NameC == <<"b", ".", "J", "P", "G">>

NameD == <<"d", ".", "p", "n", "g">>

NameT == <<"t", ".", "w", "e", "b", "p">>

FileA == UploadedFile(NameA, 7, ImageBytes(1, 640, 480))

\* the bytes and the name of FileA, claiming a size over the limit
FileA2 == UploadedFile(NameA, MAX_FILE_SIZE + 1, ImageBytes(1, 640, 480))

\* the name of FileA on other bytes, claiming fewer bytes than it holds
FileB == UploadedFile(NameA, 5, ImageBytes(2, 3000, 2000))

FileC == UploadedFile(NameC, 7, ImageBytes(3, 50, 4000))

\* a 20x20 PNG: rejected as too small
FileD == UploadedFile(NameD, 7, ImageBytes(4, 20, 20))

\* a truncated image: the header reads, the pixel data does not
FileT == UploadedFile(NameT, 7, Bytes(5, 7, TRUE, 100, 100, FALSE))

AppFiles == {FileA2, FileB, FileC}

AppUploads == SeqsUpTo(AppFiles, MaxUpload)

Prompts == { << >>, <<" ">>, <<" ", "e", " ">> }

EditedImage == [saveable |-> TRUE, save_error |-> << >>, png |-> "edited", png_len |-> 9]

\* an image whose PNG encoding fails
UnsaveableImage ==
    [saveable |-> FALSE,
     save_error |-> <<"c", "a", "n", "n", "o", "t", " ", "w", "r", "i", "t", "e", " ", "P", "N", "G">>,
     png |-> "", png_len |-> 0]

ErrRateLimit == <<"r", "a", "t", "e", " ", "l", "i", "m", "i", "t", " ", "r", "e", "a", "c", "h", "e", "d">>

ErrRateLimitTimeout ==
    <<"r", "a", "t", "e", " ", "l", "i", "m", "i", "t", ":", " ", "r", "e", "a", "d", " ", "t", "i", "m", "e", "o", "u", "t">>

AppResponses == {Returned(EditedImage), Raised(ErrRateLimit)}

\* ------------------------------------------------------ specifications

NoProbe ==
    /\ probe_file = FileA
    /\ probe_validation = << >>
    /\ probe_error = << >>
    /\ probe_final = << >>
    /\ probe_results = << >>
    /\ probe_archive = << >>

\* initialize_session_state, lines 22-31, with an empty uploader
InitApp ==
    /\ uploaded_files = << >>
    /\ uploaded_files_data = << >>
    /\ processing_results = << >>
    /\ results_type = "list"
    /\ current_prompt = << >>
    /\ processing_in_progress = FALSE
    /\ invalid_files = << >>
    /\ pc = "idle"
    /\ files_data = << >>
    /\ i = 0
    /\ attempt = 0
    /\ attempts = << >>
    /\ api_errors = << >>
    /\ discarded = 0
    /\ stopped = FALSE

\* the HF_TOKEN of the environment: unset, set to nothing, or set
Tokens == { << >>, << << >> >>, << <<"h", "f", "_", "x">> >> }

TokenSet == << <<"h", "f", "_", "x">> >>

Init == InitApp /\ NoProbe /\ HF_TOKEN \in Tokens

Next ==
    \/ ChangeUploads(AppUploads)
    \/ ClearFiles
    \/ ClearResults
    \/ NewSession
    \/ RemoveFile
    \/ SetPrompt(Prompts)
    \/ StartBatch
    \/ BeginItem
    \/ IssueCall
    \/ CallReturns(AppResponses)
    \/ FinishBatch
    \/ StopWithoutToken
    \/ Interrupt

Spec == Init /\ [][Next]_vars

(***************************************************************************)
(* The file section alone: the uploader's list changes, files are removed  *)
(* one by one or cleared, and nothing is processed.                        *)
(***************************************************************************)
UploadFiles == AppFiles \cup {FileA, FileD}

UploadLists == SeqsUpTo(UploadFiles, MaxUpload)

NextUpload ==
    \/ ChangeUploads(UploadLists)
    \/ ClearFiles
    \/ RemoveFile

SpecUpload == Init /\ [][NextUpload]_vars

(***************************************************************************)
(* The batch run alone: whole batches of up to MaxBatch files are          *)
(* uploaded, and the remote service answers in every way it can.           *)
(***************************************************************************)
MaxBatch == 3

BatchRolls == { <<FileA, FileB, FileC, FileT>>, <<FileC, FileT, FileA, FileB>> }

BatchUploads == {SubSeq(roll, 1, n) : roll \in BatchRolls, n \in 0..MaxBatch}

BatchPrompts == { <<" ", "e", " ">> }

BatchResponses ==
    { Returned(EditedImage), Returned(UnsaveableImage),
      Raised(ErrRateLimit), Raised(ErrRateLimitTimeout) }

NextBatch ==
    \/ ChangeUploads(BatchUploads)
    \/ SetPrompt(BatchPrompts)
    \/ StartBatch
    \/ BeginItem
    \/ IssueCall
    \/ CallReturns(BatchResponses)
    \/ FinishBatch

SpecBatch == Init /\ [][NextBatch]_vars

(***************************************************************************)
(* The size of the session alone: the user drags in runs of files out of   *)
(* a folder of NumCapFiles valid images, and clears the session.           *)
(***************************************************************************)
NumCapFiles == 17

CapFile(n) == UploadedFile(NameC, 7, ImageBytes(100 + n, 640, 480))

CapRoll == [n \in 1..NumCapFiles |-> CapFile(n)]

\* the first files of the folder, or those past the first MAX_FILES
CapUploads ==
    {SubSeq(CapRoll, 1, n) : n \in 0..NumCapFiles}
        \cup {SubSeq(CapRoll, MAX_FILES + 1, NumCapFiles)}

NextCap ==
    \/ ChangeUploads(CapUploads)
    \/ ClearFiles

SpecCap == Init /\ [][NextCap]_vars

(***************************************************************************)
(* validate_image alone, on every combination of claimed size, file name   *)
(* and content.                                                            *)
(***************************************************************************)
ProbeSizes == {0, 7, MAX_FILE_SIZE, MAX_FILE_SIZE + 1}

\* names whose extension is supported, in either case
ProbeNamesSupported ==
    { <<"a", ".", "p", "n", "g">>,
      <<"A", ".", "P", "N", "G">>,
      <<"b", ".", "J", "P", "G">>,
      <<"x", ".", "j", "p", "e", "g">>,
      <<"x", ".", "w", "e", "b", "p">> }

\* no dot, an unsupported extension, a supported one that is not the last
ProbeNamesUnsupported ==
    { <<"p", "n", "g">>,
      <<"a", ".", "g", "i", "f">>,
      <<"a", ".", "p", "n", "g", ".", "t", "x", "t">> }

ProbeDimensions == {20, 49, 50, 4000, 4001}

ProbeContents ==
    {EmptyBytes, CorruptBytes}
        \cup {ImageBytes(1, w, h) : w \in ProbeDimensions, h \in ProbeDimensions}

ProbeFiles ==
    {UploadedFile(name, size, bytes) :
        name \in ProbeNamesSupported \cup ProbeNamesUnsupported,
        size \in ProbeSizes, bytes \in ProbeContents}

InitValidate ==
    /\ InitApp
    /\ HF_TOKEN = TokenSet
    /\ probe_file \in ProbeFiles
    /\ probe_validation = << >>
    /\ probe_error = << >>
    /\ probe_final = << >>
    /\ probe_results = << >>
    /\ probe_archive = << >>

\* validation = processor.validate_image(file)
ValidateProbe ==
    /\ probe_validation = << >>
    /\ probe_validation' = <<validate_image(probe_file)>>
    /\ UNCHANGED << probe_file, probe_error, probe_final, probe_results, probe_archive >>
    /\ UNCHANGED session_vars
    /\ UNCHANGED loop_vars
    /\ UNCHANGED env_vars

SpecValidate == InitValidate /\ [][ValidateProbe]_vars

(***************************************************************************)
(* The error classification alone, on messages made of up to MaxPhrases    *)
(* phrases.  Each phrase is listed with the rank of the first group of     *)
(* keywords it holds (1 images/parameter, 2 timeout, 3 quota/rate limit,   *)
(* 4 unauthorized/token, 5 model, 6 none), read off the phrase by hand.    *)
(***************************************************************************)
MaxPhrases == 2

Phrases ==
    { [text |-> <<"I", "n", "v", "a", "l", "i", "d", " ", "i", "m", "a", "g", "e", "s">>,
       rank |-> 1],
      [text |-> <<"B", "a", "d", " ", "P", "a", "r", "a", "m", "e", "t", "e", "r">>,
       rank |-> 1],
      [text |-> <<"G", "a", "t", "e", "w", "a", "y", " ", "T", "I", "M", "E", "O", "U", "T">>,
       rank |-> 2],
      [text |-> <<"Q", "u", "o", "t", "a", " ", "u", "s", "e", "d", " ", "u", "p">>,
       rank |-> 3],
      [text |-> <<"R", "a", "t", "e", " ", "L", "i", "m", "i", "t", " ", "h", "i", "t">>,
       rank |-> 3],
      [text |-> <<"U", "n", "a", "u", "t", "h", "o", "r", "i", "z", "e", "d">>,
       rank |-> 4],
      [text |-> <<"b", "a", "d", " ", "T", "o", "k", "e", "n">>,
       rank |-> 4],
      [text |-> <<"M", "o", "d", "e", "l", " ", "b", "u", "s", "y">>,
       rank |-> 5],
      [text |-> <<"r", "e", "m", "o", "d", "e", "l", "e", "d">>,
       rank |-> 5],
      [text |-> <<"B", "o", "o", "m">>,
       rank |-> 6],
      [text |-> <<"o", "n", "e", " ", "I", "m", "a", "g", "e">>,
       rank |-> 6],
      [text |-> <<"r", "a", "t", "e", "-", "l", "i", "m", "i", "t">>,
       rank |-> 6] }

\* the phrases of a list, a blank between two
Joined(list) ==
    LET F[n \in 0..Len(list)] ==
            IF n = 0 THEN << >>
            ELSE IF n = 1 THEN list[1].text
            ELSE F[n - 1] \o <<" ">> \o list[n].text
    IN  F[Len(list)]

PhraseLists == SeqsUpTo(Phrases, MaxPhrases)

Messages == {Joined(list) : list \in PhraseLists}

InitClassify ==
    /\ InitApp
    /\ HF_TOKEN = TokenSet
    /\ probe_file = FileA
    /\ probe_validation = << >>
    /\ probe_error \in Messages
    /\ probe_final = << >>
    /\ probe_results = << >>
    /\ probe_archive = << >>

\* lines 174-187 on str(api_error)
ClassifyProbe ==
    /\ probe_final = << >>
    /\ probe_final' = <<classify(probe_error)>>
    /\ UNCHANGED << probe_file, probe_validation, probe_error, probe_results,
                    probe_archive >>
    /\ UNCHANGED session_vars
    /\ UNCHANGED loop_vars
    /\ UNCHANGED env_vars

SpecClassify == InitClassify /\ [][ClassifyProbe]_vars

(***************************************************************************)
(* The batch run as it goes on by itself: the script takes its next step   *)
(* unless it is ended, and every remote call returns or raises.  The user  *)
(* may touch a widget at any time.                                         *)
(***************************************************************************)
NextRun ==
    \/ ChangeUploads(BatchUploads)
    \/ SetPrompt(BatchPrompts)
    \/ StartBatch
    \/ BeginItem
    \/ IssueCall
    \/ CallReturns(AppResponses)
    \/ FinishBatch
    \/ Interrupt

SpecRun ==
    /\ Init
    /\ [][NextRun]_vars
    /\ WF_vars(BeginItem)
    /\ WF_vars(IssueCall)
    /\ WF_vars(CallReturns(AppResponses))
    /\ WF_vars(FinishBatch)

(***************************************************************************)
(* The results section after a run: every remote call succeeds, and the    *)
(* files of the session are removed or cleared once the run is over.       *)
(***************************************************************************)
OriginalResponses == { Returned(EditedImage) }

NextOriginal ==
    \/ ChangeUploads(BatchUploads)
    \/ SetPrompt(BatchPrompts)
    \/ StartBatch
    \/ BeginItem
    \/ IssueCall
    \/ CallReturns(OriginalResponses)
    \/ FinishBatch
    \/ RemoveFile
    \/ ClearFiles

SpecOriginal == Init /\ [][NextOriginal]_vars

(***************************************************************************)
(* create_zip_download alone, on the successes of every list of up to      *)
(* MaxResults results: filenames that repeat, that hold several dots, and  *)
(* that keep no character once sanitized.                                  *)
(***************************************************************************)
MaxResults == 3

NameDots == <<"a", ".", "b", ".", "p", "n", "g">>

NameSymbol == <<"@", ".", "p", "n", "g">>

ArchiveNames == {NameA, NameC, NameDots, NameSymbol}

ArchiveResults ==
    {Success(name, FileA.bytes, EditedImage) : name \in ArchiveNames}
        \cup {Failure(name, Text(MsgTimeout)) : name \in ArchiveNames}

InitArchive ==
    /\ InitApp
    /\ HF_TOKEN = TokenSet
    /\ probe_file = FileA
    /\ probe_validation = << >>
    /\ probe_error = << >>
    /\ probe_final = << >>
    /\ probe_results \in SeqsUpTo(ArchiveResults, MaxResults)
    /\ probe_archive = << >>

\* lines 321 and 350: zip_data = create_zip_download(successful)
ArchiveProbe ==
    /\ probe_archive = << >>
    /\ probe_archive' = <<create_zip_download(Successful(probe_results))>>
    /\ UNCHANGED << probe_file, probe_validation, probe_error, probe_final,
                    probe_results >>
    /\ UNCHANGED session_vars
    /\ UNCHANGED loop_vars
    /\ UNCHANGED env_vars

SpecArchive == InitArchive /\ [][ArchiveProbe]_vars

\* ------------------------------------------------------------ claims

\* the loop has gone through every item: lines 301-309 come next
RunOver == pc = "loop" /\ i > Len(files_data)

InRun == pc \in {"loop", "call", "wait"}

FailedAttempt(status) == status \in {"call failed", "save failed"}

\* the remote call of item k raised on both attempts
FailedBoth(k) == attempts[k] = <<"call failed", "call failed">>

\* the last attempt of item k got through
Succeeded(k) == attempts[k] # << >> /\ attempts[k][Len(attempts[k])] = "succeeded"

PreprocessingFailed(result) ==
    ~result.success /\ result.error.text = "Image preprocessing failed: "

(***************************************************************************)
(* C1.  A batch run over a session of N items ends with exactly N results, *)
(* result k carrying the filename of the k-th item of the session as it    *)
(* was when the run started, whatever the outcome of each item; no         *)
(* exception leaves the run.  All through the run the results are those of *)
(* the items done so far, in order.                                        *)
(***************************************************************************)
C1_OneResultPerItemInOrder ==
    /\ pc # "crashed"
    /\ InRun =>
          /\ files_data = uploaded_files_data
          /\ Len(files_data) >= 1
          /\ Len(processing_results) = i - 1
          /\ Len(processing_results) <= Len(files_data)
          /\ \A k \in 1..Len(processing_results) :
                 processing_results[k].filename = uploaded_files_data[k].filename
    /\ RunOver => Len(processing_results) = Len(uploaded_files_data)

\* a run of three items is over: one succeeded, one failed in preprocessing,
\* one failed remotely on both attempts
C1_Witness ==
    /\ RunOver
    /\ Len(files_data) = 3
    /\ processing_results[1].success
    /\ PreprocessingFailed(processing_results[2])
    /\ FailedBoth(3)
    /\ processing_results[1].filename # processing_results[3].filename

(***************************************************************************)
(* C2.  The remote call is issued at most twice per item: a second call    *)
(* only after a failed first attempt, none after an attempt that got       *)
(* through, and two failed attempts end the item with a failure result; a  *)
(* run of N items issues at most 2N calls.                                 *)
(***************************************************************************)
CallsIssued ==
    LET F[n \in 0..Len(attempts)] ==
            IF n = 0 THEN 0 ELSE F[n - 1] + Len(attempts[n])
    IN  F[Len(attempts)]

C2_AtMostTwoCallsPerItem ==
    /\ \A k \in 1..Len(attempts) :
          /\ Len(attempts[k]) <= 2
          /\ \A n \in 1..Len(attempts[k]) :
                 n < Len(attempts[k]) => FailedAttempt(attempts[k][n])
          /\ (Len(attempts[k]) = 2 /\ FailedAttempt(attempts[k][2])) =>
                 /\ k < i
                 /\ k <= Len(processing_results)
                 /\ ~processing_results[k].success
          /\ (attempts[k] # << >> /\ attempts[k][Len(attempts[k])] = "succeeded") =>
                 /\ k < i
                 /\ processing_results[k].success
    /\ CallsIssued <= 2 * Len(files_data)

\* one item took a second call after a failed first one and got through, another
\* was given up after two failed calls
C2_Witness ==
    /\ RunOver
    /\ \E k \in 1..Len(attempts) : attempts[k] = <<"call failed", "succeeded">>
    /\ \E k \in 1..Len(attempts) :
          attempts[k] = <<"save failed", "call failed">> /\ ~processing_results[k].success

(***************************************************************************)
(* C4, as amended.  An item whose remote call fails on both attempts       *)
(* yields a failure result and the later items are still processed: with F *)
(* the items that failed both attempts and the others succeeding, result k *)
(* is a failure iff k is in F and the archive holds N - |F| entries.  A    *)
(* final message that holds "rate limit" and none of "images",             *)
(* "parameter", "timeout" (case ignored) is classified as quota exceeded.  *)
(***************************************************************************)
MentionsRateLimit(k) ==
    api_errors[k] # << >> /\ Contains(lower(api_errors[k][1]), KwRateLimit)

MentionsEarlierGroup(k) ==
    \E kw \in {KwImages, KwParameter, KwTimeout} : Contains(lower(api_errors[k][1]), kw)

Archive == create_zip_download(Successful(processing_results))

C4_Body(whatever_else_it_holds) ==
    RunOver =>
        /\ Len(processing_results) = Len(files_data)
        /\ \A k \in 1..Len(files_data) :
              /\ FailedBoth(k) => ~processing_results[k].success
              /\ Succeeded(k) => processing_results[k].success
              /\ ( /\ FailedBoth(k)
                   /\ MentionsRateLimit(k)
                   /\ (whatever_else_it_holds \/ ~MentionsEarlierGroup(k)) ) =>
                     processing_results[k].error = Text(MsgQuota)
        /\ (\A k \in 1..Len(files_data) : FailedBoth(k) \/ Succeeded(k)) =>
              Len(Archive) =
                  Len(files_data) - Cardinality({k \in 1..Len(files_data) : FailedBoth(k)})

C4_FailuresAreIsolated == C4_Body(FALSE)

\* C4 as claimed: every final message that holds "rate limit" is classified as
\* quota exceeded
C4_AsClaimed == C4_Body(TRUE)

\* the scenario of the specification: three items, the second fails both attempts
\* on a rate limit
C4_Witness ==
    /\ RunOver
    /\ Len(files_data) = 3
    /\ Succeeded(1) /\ FailedBoth(2) /\ Succeeded(3)
    /\ api_errors[2] = <<ErrRateLimit>>
    /\ processing_results[1].success
    /\ processing_results[2] = Failure(files_data[2].filename, Text(MsgQuota))
    /\ processing_results[3].success
    /\ Len(Archive) = 2

(***************************************************************************)
(* C3.  The final error message is one of the six kinds, and it is the     *)
(* kind of the first group, in the order images/parameter, timeout,        *)
(* quota/rate limit, unauthorized/token, model, whose keyword the message  *)
(* holds, case ignored; with no keyword it is "API error: " followed by    *)
(* the message as it came.  The expected group is the least rank among the *)
(* phrases the message is made of.                                         *)
(***************************************************************************)
LeastRank(list) ==
    IF list = << >> THEN 6
    ELSE CHOOSE r \in {list[n].rank : n \in 1..Len(list)} :
             \A n \in 1..Len(list) : r <= list[n].rank

KindOfRank(r, message) ==
    CASE r = 1 -> Text(MsgParameter)
      [] r = 2 -> Text(MsgTimeout)
      [] r = 3 -> Text(MsgQuota)
      [] r = 4 -> Text(MsgAuth)
      [] r = 5 -> Text(MsgModel)
      [] OTHER -> TextWith(MsgApiError, message)

C3_ClassifiedByPrecedence ==
    probe_final # << >> =>
        /\ probe_final[1].text \in
               {MsgParameter, MsgTimeout, MsgQuota, MsgAuth, MsgModel, MsgApiError}
        /\ \A list \in PhraseLists :
               Joined(list) = probe_error =>
                   probe_final[1] = KindOfRank(LeastRank(list), probe_error)

\* a message holding a rate-limit phrase and then a timeout phrase has been
\* classified as a timeout
C3_Witness ==
    /\ probe_final = <<Text(MsgTimeout)>>
    /\ \E list \in PhraseLists :
          /\ Len(list) = 2
          /\ list[1].rank = 3
          /\ list[2].rank = 2
          /\ Joined(list) = probe_error

(***************************************************************************)
(* C5.  The session holds at most 15 images.                               *)
(***************************************************************************)
C5_SessionWithinMaxFiles == Len(uploaded_files_data) <= 15

(***************************************************************************)
(* C6.  A file whose bytes and name are those of an image of the session   *)
(* has the fingerprint of that image, and handing it to the uploader       *)
(* changes nothing: the session keeps its entries and no rejection is      *)
(* reported, whatever size the file claims.  Handing a file in twice       *)
(* leaves the session as handing it in once does.                          *)
(***************************************************************************)
Known(file) ==
    \E k \in 1..Len(uploaded_files_data) :
        /\ uploaded_files_data[k].bytes = file.bytes
        /\ uploaded_files_data[k].filename = file.name

C6_Step ==
    /\ \A file \in UploadFiles :
          Known(file) =>
              /\ create_file_hash(file.bytes, file.name) \in Keys(uploaded_files_data)
              /\ ProcessUploads(uploaded_files_data, <<file>>) =
                     [data |-> uploaded_files_data, new_files |-> 0,
                      invalid_files |-> << >>]
    /\ \A file \in UploadFiles :
          ProcessUploads(uploaded_files_data, <<file, file>>).data =
              ProcessUploads(uploaded_files_data, <<file>>).data
    /\ ( /\ uploaded_files' # uploaded_files
         /\ \A n \in 1..Len(uploaded_files') : Known(uploaded_files'[n]) ) =>
           /\ uploaded_files_data' = uploaded_files_data
           /\ invalid_files' = << >>

C6_ReuploadIsNoOp == [][C6_Step]_vars

\* the image of FileA is in the session, and the uploader was handed the same
\* bytes and name twice, once claiming a size over the limit: one entry, no rejection
C6_Witness ==
    /\ uploaded_files = <<FileA2, FileA>>
    /\ Len(uploaded_files_data) = 1
    /\ Known(FileA2)
    /\ invalid_files = << >>

(***************************************************************************)
(* C7.  validate_image tests, in this order, the size, the extension, the  *)
(* emptiness of the bytes, whether they decode, the upper and the lower    *)
(* limit of the dimensions, and answers with the first test that fails.    *)
(***************************************************************************)
C7_FirstFailingCheckDecides ==
    probe_validation # << >> =>
        LET validation == probe_validation[1]
            size_ok == probe_file.size <= 10 * 1024 * 1024
            extension_ok == probe_file.name \in ProbeNamesSupported
            filled == probe_file.bytes.len > 0
            decodes == probe_file.bytes.header
            not_too_large ==
                probe_file.bytes.width <= 4000 /\ probe_file.bytes.height <= 4000
            not_too_small ==
                probe_file.bytes.width >= 50 /\ probe_file.bytes.height >= 50
        IN  /\ ~size_ok => validation = Rejected(ErrTooLargeFile)
            /\ (size_ok /\ ~extension_ok) => validation = Rejected(ErrUnsupported)
            /\ (size_ok /\ extension_ok /\ ~filled) => validation = Rejected(ErrEmpty)
            /\ (size_ok /\ extension_ok /\ filled /\ ~decodes) =>
                   validation = Rejected(ErrInvalid)
            /\ (size_ok /\ extension_ok /\ filled /\ decodes /\ ~not_too_large) =>
                   validation = Rejected(ErrImageTooLarge)
            /\ (size_ok /\ extension_ok /\ filled /\ decodes /\ not_too_large
                    /\ ~not_too_small) =>
                   validation = Rejected(ErrImageTooSmall)
            /\ (size_ok /\ extension_ok /\ filled /\ decodes /\ not_too_large
                    /\ not_too_small) =>
                   validation.valid

\* a file over the size limit, with an unsupported extension and no bytes, has
\* been rejected as too large
C7_Witness ==
    /\ probe_validation = <<Rejected(ErrTooLargeFile)>>
    /\ probe_file.size > MAX_FILE_SIZE
    /\ probe_file.name \in ProbeNamesUnsupported
    /\ probe_file.bytes = EmptyBytes

(***************************************************************************)
(* C8.  Once the size, the extension, the emptiness and the decoding tests *)
(* are passed, the file is valid iff its width and its height are both     *)
(* within 50..4000; it is rejected as too large when either is over 4000,  *)
(* and as too small when neither is over 4000 and either is under 50.      *)
(***************************************************************************)
C8_DimensionLimits ==
    ( /\ probe_validation # << >>
      /\ probe_file.size <= MAX_FILE_SIZE
      /\ probe_file.name \in ProbeNamesSupported
      /\ probe_file.bytes.len > 0
      /\ probe_file.bytes.header ) =>
        LET validation == probe_validation[1]
            w == probe_file.bytes.width
            h == probe_file.bytes.height
        IN  /\ validation.valid <=> (50 <= w /\ w <= 4000 /\ 50 <= h /\ h <= 4000)
            /\ (w > 4000 \/ h > 4000) => validation = Rejected(ErrImageTooLarge)
            /\ (w <= 4000 /\ h <= 4000 /\ (w < 50 \/ h < 50)) =>
                   validation = Rejected(ErrImageTooSmall)
            /\ validation.valid => validation.dimensions = Decimal(w) \o <<"x">> \o Decimal(h)

\* an image of 50 x 4000, on both limits, has been accepted
C8_Witness ==
    /\ probe_validation # << >>
    /\ probe_validation[1].valid
    /\ probe_file.bytes.width = 50
    /\ probe_file.bytes.height = 4000

(***************************************************************************)
(* C9.  Every image of the session passed validation: a supported          *)
(* extension, bytes that are not empty and decode, a width and a height    *)
(* within 50..4000, a size of at most 10 MiB; and it is stored under the   *)
(* fingerprint of its bytes and its filename, one entry per fingerprint.   *)
(***************************************************************************)
C9_StoredImagesAreValid ==
    \A k \in 1..Len(uploaded_files_data) :
        LET data == uploaded_files_data[k]
        IN  /\ Contains(data.filename, <<".">>)
            /\ lower(LastSegment(data.filename)) \in
                   { <<"p", "n", "g">>, <<"j", "p", "g">>, <<"j", "p", "e", "g">>,
                     <<"w", "e", "b", "p">> }
            /\ data.bytes.len > 0
            /\ data.bytes.header
            /\ data.dimensions = dimensions_text(data.bytes.width, data.bytes.height)
            /\ 50 <= data.bytes.width /\ data.bytes.width <= 4000
            /\ 50 <= data.bytes.height /\ data.bytes.height <= 4000
            /\ data.size <= 10 * 1024 * 1024
            /\ data.hash = create_file_hash(data.bytes, data.filename)
            /\ \A j \in 1..Len(uploaded_files_data) :
                   uploaded_files_data[j].hash = data.hash => j = k

\* two images are stored, while the uploader holds a file that was rejected
C9_Witness ==
    /\ Len(uploaded_files_data) = 2
    /\ invalid_files # << >>

(***************************************************************************)
(* C10.  The size stored with an image is the length of its bytes,         *)
(* whatever size the file claimed.                                         *)
(***************************************************************************)
C10_SizeIsByteLength ==
    \A k \in 1..Len(uploaded_files_data) :
        uploaded_files_data[k].size = uploaded_files_data[k].bytes.len

(***************************************************************************)
(* C11.  Without a credential every script run stops at startup: no file   *)
(* is validated or stored, no rejection is reported, no batch run starts,  *)
(* no remote call is issued and no result is produced, in any state; and   *)
(* the script only stops there when the credential is missing.             *)
(***************************************************************************)
C11_NothingWithoutToken ==
    /\ (HF_TOKEN = << >> \/ HF_TOKEN = << << >> >>) =>
           /\ uploaded_files = << >>
           /\ uploaded_files_data = << >>
           /\ invalid_files = << >>
           /\ ~processing_in_progress
           /\ pc = "idle"
           /\ files_data = << >>
           /\ attempts = << >>
           /\ processing_results = << >>
    /\ stopped => (HF_TOKEN = << >> \/ HF_TOKEN = << << >> >>)

\* a script run has stopped for want of a token, the variable being set but empty
C11_Witness ==
    /\ stopped
    /\ HF_TOKEN = << << >> >>

(***************************************************************************)
(* C12.  The step that starts a batch run empties the results before any   *)
(* item is begun; a step within a run leaves the results alone or appends  *)
(* one result, that of the item in hand, and moves to the next item; the   *)
(* step that ends the run leaves them alone, and they are then the results *)
(* of that run's items, one each, with the outcome that run had.           *)
(***************************************************************************)
C12_Step ==
    /\ (pc = "idle" /\ pc' # "idle") =>
           /\ processing_results' = << >>
           /\ i' = 1
           /\ attempts' = << >>
    /\ (InRun /\ pc' # "idle") =>
           \/ processing_results' = processing_results
           \/ /\ Len(processing_results') = Len(processing_results) + 1
              /\ SubSeq(processing_results', 1, Len(processing_results)) =
                     processing_results
              /\ processing_results'[Len(processing_results')].filename =
                     files_data[i].filename
              /\ i' = i + 1
    /\ (InRun /\ pc' = "idle") =>
           /\ processing_results' = processing_results
           /\ Len(processing_results) = Len(files_data)
           /\ \A k \in 1..Len(processing_results) :
                  /\ processing_results[k].filename = files_data[k].filename
                  /\ processing_results[k].success <=> Succeeded(k)

C12_ResultsReplacedThenAppended == [][C12_Step]_vars

\* a run that threw away the three results of the last run has one result so far
\* and waits for the remote call of its second item
C12_Witness ==
    /\ pc = "wait"
    /\ discarded = 3
    /\ Len(processing_results) = 1

(***************************************************************************)
(* C13.  process_single_image answers an input that is not bytes or is     *)
(* empty, a prompt that is empty or blank, and bytes that cannot be        *)
(* converted, with a failure result carrying the item's filename, without  *)
(* reaching the remote call; any other input reaches it.  In a run, an     *)
(* item whose bytes cannot be converted has a failure result and no remote *)
(* call, and the run goes on to a result for every item.                   *)
(***************************************************************************)
PrepareInputs == {NotBytes, EmptyBytes, CorruptBytes, FileT.bytes, FileA.bytes}

Blank(prompt) == \A n \in 1..Len(prompt) : prompt[n] = " "

Unusable(image_bytes) ==
    \/ image_bytes.type # "bytes"
    \/ image_bytes.len = 0
    \/ ~image_bytes.header
    \/ ~image_bytes.loadable

C13_NoCallForUnusableInput ==
    /\ \A image_bytes \in PrepareInputs, prompt \in Prompts :
           LET prepared == prepare(image_bytes, prompt, NameC)
           IN  IF Unusable(image_bytes) \/ Blank(prompt)
               THEN /\ prepared.tag = "return"
                    /\ ~prepared.result.success
                    /\ prepared.result.filename = NameC
               ELSE prepared.tag = "call"
    /\ InRun =>
           \A k \in 1..Len(attempts) :
               Unusable(files_data[k].bytes) =>
                   /\ attempts[k] = << >>
                   /\ k <= Len(processing_results)
                   /\ ~processing_results[k].success
                   /\ processing_results[k].filename = files_data[k].filename
    /\ RunOver => Len(processing_results) = Len(files_data)

\* the run is over: its second item could not be converted and made no remote
\* call, and its third item was edited all the same
C13_Witness ==
    /\ RunOver
    /\ Len(files_data) = 3
    /\ Unusable(files_data[2].bytes)
    /\ PreprocessingFailed(processing_results[2])
    /\ attempts[2] = << >>
    /\ Succeeded(3)
    /\ processing_results[3].success

(***************************************************************************)
(* C14.  The archive built from the successes of a result list holds one   *)
(* entry per success, in order, with that success's bytes; the k-th entry  *)
(* is named by k in two digits, "_edited_", the sanitized base name of its *)
(* filename and ".png"; the names are pairwise distinct, also when         *)
(* filenames repeat or sanitize to nothing; with no success the archive    *)
(* is empty.                                                               *)
(***************************************************************************)
SanitizedBase(filename) ==
    CASE filename = NameA -> <<"a">>
      [] filename = NameC -> <<"b">>
      [] filename = NameDots -> <<"a", "b">>
      [] filename = NameSymbol -> << >>

IndexText(k) ==
    IF k < 10 THEN <<"0", DigitChars[k + 1]>>
    ELSE <<DigitChars[(k \div 10) + 1], DigitChars[(k % 10) + 1]>>

C14_ArchiveNames ==
    probe_archive # << >> =>
        LET archive == probe_archive[1]
            wins == {k \in 1..Len(probe_results) : probe_results[k].success}
            nth(n) == CHOOSE k \in wins : Cardinality({j \in wins : j <= k}) = n
        IN  /\ Len(archive) = Cardinality(wins)
            /\ wins = {} => archive = << >>
            /\ \A n \in 1..Len(archive) :
                   /\ archive[n].name =
                          IndexText(n) \o <<"_", "e", "d", "i", "t", "e", "d", "_">>
                              \o SanitizedBase(probe_results[nth(n)].filename)
                              \o <<".", "p", "n", "g">>
                   /\ archive[n].data = probe_results[nth(n)].image_bytes
            /\ \A m, n \in 1..Len(archive) :
                   archive[m].name = archive[n].name => m = n

\* an archive of three entries: two for results of one filename, and one for a
\* filename that keeps no character
C14_Witness ==
    /\ probe_archive # << >>
    /\ Len(probe_archive[1]) = 3
    /\ Len(probe_results) = 3
    /\ probe_results[1].filename = probe_results[2].filename
    /\ probe_results[3].filename = NameSymbol

(***************************************************************************)
(* C15.  Items are processed one after the other: an item is begun only    *)
(* when every item before it has its result, at most one remote call is    *)
(* awaited at any time, it is the latest call of the item in hand, and an  *)
(* item that has its result awaits none.                                   *)
(***************************************************************************)
Awaited == {p \in {<<k, n>> : k \in 1..Len(attempts), n \in 1..max_retries} :
               /\ p[2] <= Len(attempts[p[1]])
               /\ attempts[p[1]][p[2]] = "pending"}

C15_OneItemAtATime ==
    /\ Cardinality(Awaited) <= 1
    /\ pc = "wait" <=> Awaited # {}
    /\ InRun =>
           /\ Len(attempts) <= Len(processing_results) + 1
           /\ Len(processing_results) <= Len(attempts)
           /\ \A p \in Awaited :
                  /\ p[1] = Len(attempts)
                  /\ p[1] = Len(processing_results) + 1
                  /\ p[2] = Len(attempts[p[1]])
           /\ pc \in {"call", "wait"} =>
                  /\ i = Len(attempts)
                  /\ i = Len(processing_results) + 1
           /\ \A k \in 1..Len(processing_results) :
                  \/ attempts[k] = << >>
                  \/ Succeeded(k)
                  \/ /\ Len(attempts[k]) = max_retries
                     /\ \A n \in 1..Len(attempts[k]) : FailedAttempt(attempts[k][n])

\* the second item awaits its second remote call, the first item having its result
C15_Witness ==
    /\ pc = "wait"
    /\ i = 2
    /\ Len(processing_results) = 1
    /\ attempts[2] = <<"call failed", "pending">>

(***************************************************************************)
(* C16.  When the uploader's list changes, the entries the session held    *)
(* stay as they were and where they were, and the results stay as they     *)
(* were; a file that fails validation adds no entry and is reported as     *)
(* rejected; and every file of the list that passes validation is in the   *)
(* session afterwards, whether it comes before or after a rejected one.    *)
(***************************************************************************)
Passes(file) ==
    /\ file.size <= 10 * 1024 * 1024
    /\ file.bytes.len > 0
    /\ file.bytes.header
    /\ 50 <= file.bytes.width /\ file.bytes.width <= 4000
    /\ 50 <= file.bytes.height /\ file.bytes.height <= 4000

Holds(data, file) ==
    \E k \in 1..Len(data) :
        data[k].bytes = file.bytes /\ data[k].filename = file.name

C16_Step ==
    uploaded_files' # uploaded_files =>
        /\ processing_results' = processing_results
        /\ Len(uploaded_files_data') >= Len(uploaded_files_data)
        /\ SubSeq(uploaded_files_data', 1, Len(uploaded_files_data)) =
               uploaded_files_data
        /\ \A k \in (Len(uploaded_files_data) + 1)..Len(uploaded_files_data') :
               \E n \in 1..Len(uploaded_files') :
                   /\ Passes(uploaded_files'[n])
                   /\ uploaded_files_data'[k].bytes = uploaded_files'[n].bytes
                   /\ uploaded_files_data'[k].filename = uploaded_files'[n].name
        /\ \A n \in 1..Len(uploaded_files') :
               LET file == uploaded_files'[n]
               IN  /\ Passes(file) => Holds(uploaded_files_data', file)
                   /\ (~Passes(file) /\ ~Holds(uploaded_files_data, file)) =>
                          /\ ~Holds(uploaded_files_data', file)
                          /\ \E m \in 1..Len(invalid_files') :
                                 invalid_files'[m].filename = file.name

C16_RejectionLeavesTheRestAlone == [][C16_Step]_vars

\* with results of a run at hand, the uploader was given a file that is rejected
\* and then one that is not: one rejection, and the second file is in the session
C16_Witness ==
    /\ uploaded_files = <<FileA2, FileB>>
    /\ Len(invalid_files) = 1
    /\ Holds(uploaded_files_data, FileB)
    /\ ~Holds(uploaded_files_data, FileA2)
    /\ processing_results # << >>
    /\ pc = "idle"

(***************************************************************************)
(* C17.  A step of the remove button takes one entry out of the session:   *)
(* the session is one entry shorter, the entries left are those it held,   *)
(* in their order, and the results and the prompt are as they were.        *)
(***************************************************************************)
C17_Step ==
    RemoveFile =>
        /\ Len(uploaded_files_data') = Len(uploaded_files_data) - 1
        /\ \E gone \in 1..Len(uploaded_files_data) :
               uploaded_files_data' =
                   SubSeq(uploaded_files_data, 1, gone - 1)
                       \o SubSeq(uploaded_files_data, gone + 1,
                                 Len(uploaded_files_data))
        /\ processing_results' = processing_results
        /\ current_prompt' = current_prompt

C17_RemoveDeletesOneEntry == [][C17_Step]_vars

(***************************************************************************)
(* C18.  A step of New Session leaves no image in the session, no result   *)
(* and an empty prompt; a step of Clear Files leaves no image in the       *)
(* session and the results as they were; a step of Clear Results leaves no *)
(* result and the session as it was.                                       *)
(***************************************************************************)
C18_Step ==
    /\ NewSession =>
           /\ uploaded_files_data' = << >>
           /\ processing_results' = << >>
           /\ current_prompt' = << >>
    /\ ClearFiles =>
           /\ uploaded_files_data' = << >>
           /\ processing_results' = processing_results
    /\ ClearResults =>
           /\ processing_results' = << >>
           /\ uploaded_files_data' = uploaded_files_data

C18_ClearingEmpties == [][C18_Step]_vars

(***************************************************************************)
(* C19.  The original shown for a result is looked up by filename alone:   *)
(* none when no entry of the session has the result's filename, else the   *)
(* first entry, in the session's order, that has it.  Of two results whose *)
(* images share a filename, both get the first of the two images.          *)
(***************************************************************************)
C19_OriginalByFilename ==
    (pc = "idle" /\ results_type = "list") =>
        \A k \in 1..Len(processing_results) :
            LET result == processing_results[k]
                same == {n \in 1..Len(uploaded_files_data) :
                            uploaded_files_data[n].filename = result.filename}
                found == original_data(result, uploaded_files_data)
            IN  result.success =>
                    /\ found = << >> <=> same = {}
                    /\ same # {} =>
                           \E n \in same :
                               /\ found = <<uploaded_files_data[n]>>
                               /\ \A m \in same : n <= m

\* after a run over three images, two of them named a.png, the third was removed:
\* the result of the second a.png gets the bytes of the first, and the result of
\* the third gets no original
C19_Witness ==
    /\ pc = "idle"
    /\ Len(processing_results) = 3
    /\ \A k \in 1..3 : processing_results[k].success
    /\ processing_results[3].filename = NameC
    /\ Len(uploaded_files_data) = 2
    /\ uploaded_files_data[1].bytes = FileA.bytes
    /\ uploaded_files_data[2].bytes = FileB.bytes
    /\ original_data(processing_results[2], uploaded_files_data) =
           <<uploaded_files_data[1]>>
    /\ original_data(processing_results[3], uploaded_files_data) = << >>

(***************************************************************************)
(* C20.  A batch run over n items is followed, sooner or later, by a state *)
(* in which no run is in progress, the results hold n items, the flag      *)
(* processing_in_progress is false and a further run can be started.       *)
(***************************************************************************)
C20_RunCompletes ==
    \A n \in 1..MaxBatch :
        (InRun /\ Len(files_data) = n) ~>
            /\ pc = "idle"
            /\ ~processing_in_progress
            /\ Len(processing_results) = n
            /\ can_process(uploaded_files_data, current_prompt)

(***************************************************************************)
(* C21.  A step that starts a batch run is taken with the flag             *)
(* processing_in_progress false, and the run it starts has at least one    *)
(* item, all the images of the session, and a prompt that holds more than  *)
(* spaces.  While a run goes on, the flag is true, the items and the       *)
(* prompt stay as they are and the loop only moves forward: no other run   *)
(* starts within it.                                                       *)
(***************************************************************************)
HasText(prompt) == \E n \in 1..Len(prompt) : prompt[n] # " "

C21_Step ==
    /\ (pc = "idle" /\ pc' # "idle") =>
           /\ ~processing_in_progress
           /\ processing_in_progress'
           /\ uploaded_files_data' # << >>
           /\ files_data' = uploaded_files_data'
           /\ HasText(current_prompt')
           /\ current_prompt' = current_prompt
    /\ InRun =>
           /\ processing_in_progress
           /\ Len(files_data) >= 1
           /\ HasText(current_prompt)
           /\ pc' # "idle" =>
                  /\ files_data' = files_data
                  /\ current_prompt' = current_prompt
                  /\ i' >= i
                  /\ processing_in_progress'

C21_RunStartsOnlyWhenAllowed == [][C21_Step]_vars

\* a run over two images has just started, with a prompt that has spaces around
\* its text
C21_Witness ==
    /\ pc = "loop"
    /\ i = 1
    /\ Len(files_data) = 2
    /\ processing_in_progress
    /\ current_prompt = <<" ", "e", " ">>
    /\ attempts = << >>

(***************************************************************************)
(* C22.  When the remote call of an attempt returns an image and saving    *)
(* that image as PNG raises, the attempt has failed: after the first       *)
(* attempt no result is appended and the remote call is issued once more   *)
(* for the same item; after the second attempt the item gets a failure     *)
(* whose error is the classification of what the save raised, and the loop *)
(* goes on to the next item.                                               *)
(***************************************************************************)
SaveFailedNow ==
    /\ pc = "wait"
    /\ pc' # "wait"
    /\ attempts'[i][Len(attempts'[i])] = "save failed"

SaveErrorResult(filename) ==
    [success |-> FALSE, filename |-> filename,
     error |-> [text |-> "API error: ", arg |-> UnsaveableImage.save_error]]

C22_Step ==
    /\ SaveFailedNow =>
           IF Len(attempts[i]) = 1
           THEN /\ pc' = "call"
                /\ i' = i
                /\ processing_results' = processing_results
           ELSE /\ Len(attempts[i]) = 2
                /\ pc' = "loop"
                /\ i' = i + 1
                /\ processing_results' =
                       Append(processing_results, SaveErrorResult(files_data[i].filename))
    /\ (pc = "call" /\ Len(attempts[i]) = 1 /\ attempts[i][1] = "save failed") =>
           /\ pc' = "wait"
           /\ i' = i
           /\ Len(attempts'[i]) = 2

C22_SaveFailureIsAFailedAttempt == [][C22_Step]_vars

\* the first item got through on the call reissued after a failed save, the
\* second was given up after two failed saves, each after the service answered
C22_Witness ==
    /\ pc = "loop"
    /\ Len(attempts) = 2
    /\ attempts[1] = <<"save failed", "succeeded">>
    /\ attempts[2] = <<"save failed", "save failed">>
    /\ Len(processing_results) = 2
    /\ processing_results[1].success
    /\ processing_results[2] = SaveErrorResult(files_data[2].filename)
    /\ api_errors[2] = <<UnsaveableImage.save_error>>

(***************************************************************************)
(* C23.  In every state the results are a list, each element one result    *)
(* record, and the session is a mapping from fingerprint to image: no two  *)
(* entries have the same key, and each entry sits under the fingerprint of *)
(* its own bytes and filename.                                             *)
(***************************************************************************)
SessionIsAMapping ==
    /\ \A k, n \in 1..Len(uploaded_files_data) :
           uploaded_files_data[k].hash = uploaded_files_data[n].hash => k = n
    /\ \A k \in 1..Len(uploaded_files_data) :
           uploaded_files_data[k].hash =
               create_file_hash(uploaded_files_data[k].bytes, uploaded_files_data[k].filename)

ResultsAreRecords ==
    \A k \in 1..Len(processing_results) :
        /\ processing_results[k].success \in BOOLEAN
        /\ {"success", "filename"} \subseteq DOMAIN processing_results[k]

C23_SessionShapes == SessionIsAMapping /\ ResultsAreRecords

C23_ResultsIsAList == results_type = "list" /\ C23_SessionShapes

====
